---- MODULE Spec2Model ----
(***************************************************************************)
(* Movie review program (program/src/processor.rs, program/src/state.rs).  *)
(*                                                                         *)
(* The state is the set of review accounts (slots) the program is handed:  *)
(* for each derived address the account's owning program and its data     *)
(* bytes.  Account data is modelled byte for byte, because the handlers    *)
(* read a slot with borsh's try_from_slice over the whole data slice and   *)
(* write it with serialize into the front of the same slice.               *)
(*                                                                         *)
(* A slot's data is the buffer the handler borrows: what a handler has     *)
(* written into it when it returns, with or without an error, is what the  *)
(* slot holds afterwards.  Titles are kept within the 32 bytes a seed of   *)
(* find_program_address may have, and all strings are ASCII.               *)
(***************************************************************************)
EXTENDS Integers, Sequences, FiniteSets, TLC

VARIABLES accounts, call, creates

vars == <<accounts, call, creates>>

----------------------------------------------------------------------------
(* Byte strings *)

Rep(b, n) == [i \in 1..n |-> b]

\* Width of a Pubkey in bytes (state.rs: the "32" of get_account_size).
PUBKEY_BYTES == 32

\* Size of the data area requested for every review account.
account_len == 1000

\* Bytes of a record besides the two strings: flag, reviewer, rating and
\* the two 4-byte length prefixes.
FixedBytes == 1 + PUBKEY_BYTES + 1 + 4 + 4

----------------------------------------------------------------------------
(* Inputs *)

\* Two callers.
KeyA == Rep(1, PUBKEY_BYTES)
KeyB == Rep(2, PUBKEY_BYTES)
Signers == {KeyA, KeyB}

\* Two titles of different length: "D" and "Du".
Title1 == <<68>>
Title2 == <<68, 117>>
Titles == {Title1, Title2}

\* Length of the short description.
ShortLen == 2

\* Descriptions: a short one, and two that bring a record with the longer
\* (resp. the shorter) title to exactly the capacity of a slot.
DescShort == Rep(111, ShortLen)
DescFit2  == Rep(97, account_len - FixedBytes - Len(Title2))
DescFit1  == Rep(98, account_len - FixedBytes - Len(Title1))
Descriptions == {DescShort, DescFit2, DescFit1}

Ratings == {0, 1, 5, 6}

----------------------------------------------------------------------------
(* state.rs *)

\* Mutant of get_account_size: the two length prefixes are left out.
get_account_size_no_prefixes(title, description) ==
    1 + PUBKEY_BYTES + 1 + Len(title) + Len(description)

\* MovieAccountState::get_account_size
\* Mutant of get_account_size: the length prefix of the description is
\* left out.
get_account_size_one_prefix(title, description) ==
    1 + PUBKEY_BYTES + 1 + (4 + Len(title)) + Len(description)

get_account_size(title, description) ==
    1 + PUBKEY_BYTES + 1 + (4 + Len(title)) + (4 + Len(description))

\* borsh: u32 length prefix, little endian
LE32(n) == << n % 256, (n \div 256) % 256, (n \div 65536) % 256,
              (n \div 16777216) % 256 >>

FromLE32(b) == b[1] + 256 * b[2] + 65536 * b[3] + 16777216 * b[4]

\* #[derive(BorshSerialize)] for MovieAccountState: the fields in order.
Serialize(rec) ==
    << (IF rec.is_initialized THEN 1 ELSE 0) >>
    \o rec.reviewer
    \o << rec.rating >>
    \o LE32(Len(rec.title)) \o rec.title
    \o LE32(Len(rec.description)) \o rec.description

\* account_data.serialize(&mut &mut data[..]): Write for &mut [u8] copies
\* what fits into the front of the slice and leaves the rest of the slice
\* as it was; write_all fails (WriteZero) when a field does not fit.
SerializeInto(rec, data) ==
    LET bytes == Serialize(rec)
        n     == Len(bytes)
        cap   == Len(data)
    IN  IF n <= cap
        THEN [ok |-> TRUE,
              data |-> bytes \o SubSeq(data, n + 1, cap)]
        ELSE [ok |-> FALSE,
              data |-> SubSeq(bytes, 1, cap)]

DecodeError == [ok |-> FALSE]

\* #[derive(BorshDeserialize)] for MovieAccountState: reads the fields in
\* order from the front of the slice; consumed is the number of bytes read.
Deserialize(v) ==
    LET n == Len(v) IN
    IF n < 1 THEN DecodeError
    ELSE IF v[1] \notin {0, 1} THEN DecodeError
    ELSE IF n < 1 + PUBKEY_BYTES + 1 + 4 THEN DecodeError
    ELSE
      LET tOff == 1 + PUBKEY_BYTES + 1
          tLen == FromLE32(SubSeq(v, tOff + 1, tOff + 4))
      IN
      IF n < tOff + 4 + tLen + 4 THEN DecodeError
      ELSE
        LET dOff == tOff + 4 + tLen
            dLen == FromLE32(SubSeq(v, dOff + 1, dOff + 4))
        IN
        IF n < dOff + 4 + dLen THEN DecodeError
        ELSE [ok |-> TRUE,
              consumed |-> dOff + 4 + dLen,
              value |-> [is_initialized |-> (v[1] = 1),
                         reviewer |-> SubSeq(v, 2, 1 + PUBKEY_BYTES),
                         rating |-> v[tOff],
                         title |-> SubSeq(v, tOff + 5, tOff + 4 + tLen),
                         description |-> SubSeq(v, dOff + 5, dOff + 4 + dLen)]]

\* BorshDeserialize::try_from_slice: deserialize, then fail unless every
\* byte of the slice was read.
try_from_slice(v) ==
    LET r == Deserialize(v) IN
    IF ~r.ok THEN DecodeError
    ELSE IF r.consumed # Len(v) THEN DecodeError
    ELSE r

\* Mutant of is_initialized: every record counts as initialized.
is_initialized_always(rec) == TRUE

\* IsInitialized for MovieAccountState
is_initialized(rec) == rec.is_initialized

----------------------------------------------------------------------------
(* processor.rs *)

\* Pubkey::find_program_address(&[initializer, title], program_id): a hash
\* of the concatenated seeds, modelled by the seeds it is injective on.
find_program_address(initializer, title) == initializer \o title

\* The review accounts the callers name: the first caller's review of the
\* longer title and the second caller's review of the shorter one.
Slots == {find_program_address(KeyA, Title2), find_program_address(KeyB, Title1)}

\* Mutant of InvalidRating: the lower bound is not checked.
InvalidRating_upper_only(rating) == rating > 5

\* Mutant of InvalidRating: the upper bound is off by one.
InvalidRating_excludes_five(rating) == rating >= 5 \/ rating < 1

\* rating > 5 || rating < 1
InvalidRating(rating) == rating > 5 \/ rating < 1

EmptyAccount == [owner |-> "system", data |-> <<>>]

\* invoke_signed(system_instruction::create_account(.., account_len,
\* program_id)): the system program refuses an address already in use and
\* may fail for want of funds (hostOk); otherwise the account gets
\* account_len zero bytes and this program as owner.
create_account(accts, key, space, hostOk) ==
    IF accts[key].owner # "system" \/ Len(accts[key].data) # 0 \/ ~hostOk
    THEN [ok |-> FALSE, accounts |-> accts]
    ELSE [ok |-> TRUE,
          accounts |-> [accts EXCEPT ![key] =
                           [owner |-> "program", data |-> Rep(0, space)]]]

\* A handler's return before the host is asked for anything.
Fail(err, accts) == [result |-> err, accounts |-> accts, requested |-> FALSE]

\* "Create new account data"
new_account_data(initializer, rating, title, description) ==
    [is_initialized |-> TRUE,
     reviewer |-> initializer,
     rating |-> rating,
     title |-> title,
     description |-> description]

\* Mutant of add_movie_review: the slot is inspected only for being empty,
\* and a slot that exists already is written without being allocated.
add_movie_review_rewrites(accts, initializer, is_signer, pda_key, title, rating, description, hostOk) ==
    IF ~is_signer THEN Fail("MissingRequiredSignature", accts)
    ELSE IF find_program_address(initializer, title) # pda_key
    THEN Fail("InvalidPDA", accts)
    ELSE IF InvalidRating(rating) THEN Fail("InvalidRating", accts)
    ELSE IF get_account_size(title, description) > account_len
    THEN Fail("InvalidDataLength", accts)
    ELSE
      LET made == IF Len(accts[pda_key].data) # 0
                  THEN [ok |-> TRUE, accounts |-> accts]
                  ELSE create_account(accts, pda_key, account_len, hostOk)
      IN
      IF ~made.ok
      THEN [result |-> "AllocationFailed", accounts |-> accts,
            requested |-> TRUE]
      ELSE
        LET account_data == new_account_data(initializer, rating, title,
                                             description)
            w == SerializeInto(account_data, made.accounts[pda_key].data)
        IN [result |-> IF w.ok THEN "Ok" ELSE "BorshIoError",
            accounts |-> [made.accounts EXCEPT ![pda_key].data = w.data],
            requested |-> TRUE]

\* Mutant of add_movie_review: every non-empty slot that decodes is
\* rejected, whatever its is_initialized flag.
add_movie_review_rejects_decodable(accts, initializer, is_signer, pda_key, title, rating, description, hostOk) ==
    IF ~is_signer THEN Fail("MissingRequiredSignature", accts)
    ELSE IF find_program_address(initializer, title) # pda_key
    THEN Fail("InvalidPDA", accts)
    ELSE IF Len(accts[pda_key].data) # 0
            /\ ~try_from_slice(accts[pda_key].data).ok
    THEN Fail("InvalidAccountData", accts)
    ELSE IF Len(accts[pda_key].data) # 0
    THEN Fail("AccountAlreadyInitialized", accts)
    ELSE IF InvalidRating(rating) THEN Fail("InvalidRating", accts)
    ELSE IF get_account_size(title, description) > account_len
    THEN Fail("InvalidDataLength", accts)
    ELSE
      LET made == create_account(accts, pda_key, account_len, hostOk) IN
      IF ~made.ok
      THEN [result |-> "AllocationFailed", accounts |-> accts,
            requested |-> TRUE]
      ELSE
        LET account_data == new_account_data(initializer, rating, title,
                                             description)
            w == SerializeInto(account_data, made.accounts[pda_key].data)
        IN [result |-> IF w.ok THEN "Ok" ELSE "BorshIoError",
            accounts |-> [made.accounts EXCEPT ![pda_key].data = w.data],
            requested |-> TRUE]

\* Mutant of add_movie_review: the rating is validated first, before the
\* signer, the address and the slot.
add_movie_review_rating_first(accts, initializer, is_signer, pda_key, title, rating, description, hostOk) ==
    IF InvalidRating(rating) THEN Fail("InvalidRating", accts)
    ELSE IF ~is_signer THEN Fail("MissingRequiredSignature", accts)
    ELSE IF find_program_address(initializer, title) # pda_key
    THEN Fail("InvalidPDA", accts)
    ELSE IF Len(accts[pda_key].data) # 0
            /\ ~try_from_slice(accts[pda_key].data).ok
    THEN Fail("InvalidAccountData", accts)
    ELSE IF Len(accts[pda_key].data) # 0
            /\ try_from_slice(accts[pda_key].data).value.is_initialized
    THEN Fail("AccountAlreadyInitialized", accts)
    ELSE IF get_account_size(title, description) > account_len
    THEN Fail("InvalidDataLength", accts)
    ELSE
      LET made == create_account(accts, pda_key, account_len, hostOk) IN
      IF ~made.ok
      THEN [result |-> "AllocationFailed", accounts |-> accts,
            requested |-> TRUE]
      ELSE
        LET account_data == new_account_data(initializer, rating, title,
                                             description)
            w == SerializeInto(account_data, made.accounts[pda_key].data)
        IN [result |-> IF w.ok THEN "Ok" ELSE "BorshIoError",
            accounts |-> [made.accounts EXCEPT ![pda_key].data = w.data],
            requested |-> TRUE]

add_movie_review(accts, initializer, is_signer, pda_key, title, rating, description, hostOk) ==
    IF ~is_signer THEN Fail("MissingRequiredSignature", accts)
    ELSE IF find_program_address(initializer, title) # pda_key
    THEN Fail("InvalidPDA", accts)
    ELSE IF Len(accts[pda_key].data) # 0
            /\ ~try_from_slice(accts[pda_key].data).ok
    THEN Fail("InvalidAccountData", accts)
    ELSE IF Len(accts[pda_key].data) # 0
            /\ try_from_slice(accts[pda_key].data).value.is_initialized
    THEN Fail("AccountAlreadyInitialized", accts)
    ELSE IF InvalidRating(rating) THEN Fail("InvalidRating", accts)
    ELSE IF get_account_size(title, description) > account_len
    THEN Fail("InvalidDataLength", accts)
    ELSE
      LET made == create_account(accts, pda_key, account_len, hostOk) IN
      IF ~made.ok
      THEN [result |-> "AllocationFailed", accounts |-> accts,
            requested |-> TRUE]
      ELSE
        LET account_data == new_account_data(initializer, rating, title,
                                             description)
            w == SerializeInto(account_data, made.accounts[pda_key].data)
        IN [result |-> IF w.ok THEN "Ok" ELSE "BorshIoError",
            accounts |-> [made.accounts EXCEPT ![pda_key].data = w.data],
            requested |-> TRUE]

\* Mutant of update_pda: the seeds are the caller and the title of the
\* request.
update_pda_request_title(initializer, account_data, title) ==
    find_program_address(initializer, title)

\* "Validate PDA" of update_movie_review: the seeds are the caller and the
\* title read from the slot.
update_pda(initializer, account_data, title) ==
    find_program_address(initializer, account_data.title)

\* "Check data length" of update_movie_review: get_account_size(title,
\* description.clone()) with the title of the request.
update_len(account_data, title, description) ==
    get_account_size(title, description)

\* Mutant of updated_account_data: the title of the request is stored too.
updated_account_data_retitled(account_data, title, rating, description) ==
    [account_data EXCEPT !.title = title, !.rating = rating,
                         !.description = description]

\* Mutant of updated_account_data: the record is rebuilt from the request
\* with the flag left at its default.
updated_account_data_unflagged(account_data, title, rating, description) ==
    [account_data EXCEPT !.is_initialized = FALSE, !.rating = rating,
                         !.description = description]

\* "Update account data"
updated_account_data(account_data, title, rating, description) ==
    [account_data EXCEPT !.rating = rating, !.description = description]

\* Mutant of update_movie_review: the signer is checked before the owner of
\* the slot, as in add_movie_review.
update_movie_review_signer_first(accts, initializer, is_signer, pda_key, title, rating, description) ==
    IF ~is_signer THEN Fail("MissingRequiredSignature", accts)
    ELSE IF accts[pda_key].owner # "program" THEN Fail("IllegalOwner", accts)
    ELSE
      LET r == try_from_slice(accts[pda_key].data) IN
      IF ~r.ok THEN Fail("BorshIoError", accts)
      ELSE IF update_pda(initializer, r.value, title) # pda_key
      THEN Fail("InvalidPDA", accts)
      ELSE IF ~is_initialized(r.value)
      THEN Fail("UninitializedAccount", accts)
      ELSE IF InvalidRating(rating) THEN Fail("InvalidRating", accts)
      ELSE IF update_len(r.value, title, description) > account_len
      THEN Fail("InvalidDataLength", accts)
      ELSE
        LET account_data == updated_account_data(r.value, title, rating,
                                                 description)
            w == SerializeInto(account_data, accts[pda_key].data)
        IN [result |-> IF w.ok THEN "Ok" ELSE "BorshIoError",
            accounts |-> [accts EXCEPT ![pda_key].data = w.data],
            requested |-> FALSE]

update_movie_review(accts, initializer, is_signer, pda_key, title, rating, description) ==
    IF accts[pda_key].owner # "program" THEN Fail("IllegalOwner", accts)
    ELSE IF ~is_signer THEN Fail("MissingRequiredSignature", accts)
    ELSE
      LET r == try_from_slice(accts[pda_key].data) IN
      IF ~r.ok THEN Fail("BorshIoError", accts)
      ELSE IF update_pda(initializer, r.value, title) # pda_key
      THEN Fail("InvalidPDA", accts)
      ELSE IF ~is_initialized(r.value)
      THEN Fail("UninitializedAccount", accts)
      ELSE IF InvalidRating(rating) THEN Fail("InvalidRating", accts)
      ELSE IF update_len(r.value, title, description) > account_len
      THEN Fail("InvalidDataLength", accts)
      ELSE
        LET account_data == updated_account_data(r.value, title, rating,
                                                 description)
            w == SerializeInto(account_data, accts[pda_key].data)
        IN [result |-> IF w.ok THEN "Ok" ELSE "BorshIoError",
            accounts |-> [accts EXCEPT ![pda_key].data = w.data],
            requested |-> FALSE]

----------------------------------------------------------------------------
(* The state machine *)

\* call is the invocation in progress: its arguments, the content of the
\* target slot when it started, and what the handler returned.  Invocations
\* run one at a time; Return ends the invocation.
NoCall == [op |-> "none", initializer |-> <<>>, is_signer |-> FALSE,
           pda_key |-> <<>>, title |-> <<>>, rating |-> 0,
           description |-> <<>>, before |-> EmptyAccount,
           result |-> "none", requested |-> FALSE]

Init ==
    /\ accounts = [k \in Slots |-> EmptyAccount]
    /\ call = NoCall
    /\ creates = [k \in Slots |-> 0]

\* Successful creations counted per slot are capped for the model.
MaxCreates == 2

AddMovieReview ==
    /\ call.op = "none"
    /\ \E initializer \in Signers, is_signer \in BOOLEAN, pda_key \in Slots,
          title \in Titles, rating \in Ratings, description \in Descriptions,
          hostOk \in BOOLEAN :
         LET out == add_movie_review(accounts, initializer, is_signer,
                                     pda_key, title, rating, description,
                                     hostOk)
         IN /\ out.result = "Ok" => creates[pda_key] < MaxCreates
            /\ accounts' = out.accounts
            /\ call' = [op |-> "add", initializer |-> initializer,
                        is_signer |-> is_signer, pda_key |-> pda_key,
                        title |-> title, rating |-> rating,
                        description |-> description,
                        before |-> accounts[pda_key],
                        result |-> out.result, requested |-> out.requested]
            /\ creates' = IF out.result = "Ok"
                          THEN [creates EXCEPT ![pda_key] = @ + 1]
                          ELSE creates

UpdateMovieReview ==
    /\ call.op = "none"
    /\ \E initializer \in Signers, is_signer \in BOOLEAN, pda_key \in Slots,
          title \in Titles, rating \in Ratings, description \in Descriptions :
         LET out == update_movie_review(accounts, initializer, is_signer,
                                        pda_key, title, rating, description)
         IN /\ accounts' = out.accounts
            /\ call' = [op |-> "update", initializer |-> initializer,
                        is_signer |-> is_signer, pda_key |-> pda_key,
                        title |-> title, rating |-> rating,
                        description |-> description,
                        before |-> accounts[pda_key],
                        result |-> out.result, requested |-> out.requested]
            /\ UNCHANGED creates

Return ==
    /\ call.op # "none"
    /\ call' = NoCall
    /\ UNCHANGED <<accounts, creates>>

Next == AddMovieReview \/ UpdateMovieReview \/ Return

Spec == Init /\ [][Next]_vars

----------------------------------------------------------------------------
(* The entry point *)

\* MovieInstruction::unpack lives in instruction.rs; it is modelled from the
\* operation surface the specification gives: one discriminant byte, two
\* operations, anything else is no instruction.
unpack(discriminant) ==
    CASE discriminant = 0 -> [ok |-> TRUE, instruction |-> "AddMovieReview"]
      [] discriminant = 1 -> [ok |-> TRUE, instruction |-> "UpdateMovieReview"]
      [] OTHER -> [ok |-> FALSE, instruction |-> "none"]

Discriminants == {0, 1, 2}

\* process_instruction: the match has the single arm AddMovieReview; no
\* instruction reaches update_movie_review.
process_instruction(accts, discriminant, initializer, is_signer, pda_key, title, rating, description, hostOk) ==
    LET instruction == unpack(discriminant) IN
    IF instruction.ok /\ instruction.instruction = "AddMovieReview"
    THEN [handler |-> "add",
          out |-> add_movie_review(accts, initializer, is_signer, pda_key,
                                   title, rating, description, hostOk)]
    ELSE [handler |-> "rejected",
          out |-> Fail("InvalidInstructionData", accts)]

ProcessInstruction ==
    /\ call.op = "none"
    /\ \E discriminant \in Discriminants, initializer \in Signers,
          is_signer \in BOOLEAN, pda_key \in Slots, title \in Titles,
          rating \in Ratings, description \in Descriptions,
          hostOk \in BOOLEAN :
         LET run == process_instruction(accounts, discriminant, initializer,
                                        is_signer, pda_key, title, rating,
                                        description, hostOk)
         IN /\ run.out.result = "Ok" => creates[pda_key] < MaxCreates
            /\ accounts' = run.out.accounts
            /\ call' = [op |-> run.handler, initializer |-> initializer,
                        is_signer |-> is_signer, pda_key |-> pda_key,
                        title |-> title, rating |-> rating,
                        description |-> description,
                        before |-> accounts[pda_key],
                        result |-> run.out.result,
                        requested |-> run.out.requested,
                        instruction |-> unpack(discriminant).instruction]
            /\ creates' = IF run.out.result = "Ok"
                          THEN [creates EXCEPT ![pda_key] = @ + 1]
                          ELSE creates

NextEntry == ProcessInstruction \/ Return

\* The program as the host runs it: every request enters through
\* process_instruction.
SpecEntry == Init /\ [][NextEntry]_vars

----------------------------------------------------------------------------
(* Slots with content the handlers did not write *)

\* The handlers take the slot as an account handed to them and guard against
\* what it may hold: another owning program (update_movie_review), content
\* that does not decode, and a record that decodes with is_initialized
\* false (both handlers).  SpecProbe starts the same machine with each slot
\* either unallocated or holding such content.

\* The caller and title slot k is derived from.
SeedsOf(k) ==
    CHOOSE s \in Signers \X Titles : find_program_address(s[1], s[2]) = k

\* A record of slot k's owner and title that fills the slot and was never
\* marked initialized.
UninitializedRecord(k) ==
    [is_initialized |-> FALSE,
     reviewer |-> SeedsOf(k)[1],
     rating |-> 0,
     title |-> SeedsOf(k)[2],
     description |-> Rep(97, account_len - FixedBytes - Len(SeedsOf(k)[2]))]

\* Bytes that are no record: the first byte is no bool.
Undecodable == Rep(255, PUBKEY_BYTES)

ProbeAccounts(k) ==
    { EmptyAccount,
      [owner |-> "program", data |-> Serialize(UninitializedRecord(k))],
      [owner |-> "other", data |-> Serialize(UninitializedRecord(k))],
      [owner |-> "other", data |-> Undecodable] }

InitProbe ==
    /\ accounts \in { f \in [Slots -> UNION {ProbeAccounts(k) : k \in Slots}] :
                        \A k \in Slots : f[k] \in ProbeAccounts(k) }
    /\ call = NoCall
    /\ creates = [k \in Slots |-> 0]

SpecProbe == InitProbe /\ [][Next]_vars

----------------------------------------------------------------------------
(* Reading a slot *)

\* The record at the front of a slot's data, whatever follows it.
Stored(acct) == Deserialize(acct.data)

Allocated(acct) == Len(acct.data) # 0

\* The fields of the record layout read in place; they are readable in
\* every allocated slot, also when the description is cut short.
StoredFlag(acct) == acct.data[1]
StoredReviewer(acct) == SubSeq(acct.data, 2, 1 + PUBKEY_BYTES)
StoredRating(acct) == acct.data[1 + PUBKEY_BYTES + 1]
StoredTitleLen(acct) ==
    FromLE32(SubSeq(acct.data, PUBKEY_BYTES + 3, PUBKEY_BYTES + 6))
StoredTitle(acct) ==
    SubSeq(acct.data, PUBKEY_BYTES + 7, PUBKEY_BYTES + 6 + StoredTitleLen(acct))
StoredDescLen(acct) ==
    FromLE32(SubSeq(acct.data, PUBKEY_BYTES + 7 + StoredTitleLen(acct),
                    PUBKEY_BYTES + 10 + StoredTitleLen(acct)))

\* The slot holds a record marked initialized.
Initialized(acct) == Allocated(acct) /\ StoredFlag(acct) = 1

\* What a successful Create leaves in a fresh slot.
Created(owner, title, rating, description) ==
    [owner |-> "program",
     data |-> Serialize(new_account_data(owner, rating, title, description))
              \o Rep(0, account_len
                        - get_account_size(title, description))]

\* The slot the invocation in progress names, as it is now.
Target == accounts[call.pda_key]

\* The invocation in progress is by a signer on the slot derived from the
\* caller and the title of the request.
OwnSlotCall(op) ==
    /\ call.op = op
    /\ call.is_signer
    /\ call.pda_key = find_program_address(call.initializer, call.title)

----------------------------------------------------------------------------
(* Claims *)

\* C1: a successful Create(A, t, r, d) followed by Update(A, t, r', d') on
\* the same slot, with ratings in 1..5 and sizes within the capacity, makes
\* the Update succeed and leaves the record {initialized, A, r', t, d'}.
C1_CreateThenUpdate ==
    ( /\ OwnSlotCall("update")
      /\ creates[call.pda_key] = 1
      /\ \E r \in Ratings \ {x \in Ratings : InvalidRating(x)},
            d \in Descriptions :
           /\ get_account_size(call.title, d) <= account_len
           /\ call.before = Created(call.initializer, call.title, r, d)
      /\ ~InvalidRating(call.rating)
      /\ get_account_size(call.title, call.description) <= account_len )
    => /\ call.result = "Ok"
       /\ Stored(Target).ok
       /\ Stored(Target).value =
            [is_initialized |-> TRUE, reviewer |-> call.initializer,
             rating |-> call.rating, title |-> call.title,
             description |-> call.description]

\* C2: a Create whose target slot already holds a record with initialized
\* true fails with AlreadyInitialized and leaves the slot as it was.
C2_CreateOnInitialized ==
    ( /\ OwnSlotCall("add")
      /\ Stored(call.before).ok
      /\ Stored(call.before).value.is_initialized )
    => /\ call.result = "AccountAlreadyInitialized"
       /\ Target = call.before

\* Successful Creates on slot k before the invocation in progress.
CreatesBefore(k) ==
    IF call.op = "add" /\ call.result = "Ok" /\ call.pda_key = k
    THEN creates[k] - 1
    ELSE creates[k]

\* C3: at most one Create succeeds for a given (owner, title): once one has
\* succeeded, every later Create for the pair fails and neither allocates
\* nor rewrites the slot.
C3_CreateOnce ==
    /\ \A k \in Slots : creates[k] <= 1
    /\ ( call.op = "add" /\ CreatesBefore(call.pda_key) >= 1 )
       => /\ call.result # "Ok"
          /\ Target = call.before

\* C3 witness: a signed Create for a pair whose Create already succeeded
\* has been rejected.
C3_Witness ==
    /\ OwnSlotCall("add")
    /\ CreatesBefore(call.pda_key) = 1
    /\ call.result # "Ok"
    /\ Target = call.before
    /\ Initialized(Target)

\* C4: an Update whose signer is not the owner stored in the record fails
\* with AddressMismatch and leaves the record unchanged.
C4_NonOwnerUpdate ==
    ( /\ call.op = "update"
      /\ call.is_signer
      /\ Stored(call.before).ok
      /\ Stored(call.before).value.reviewer # call.initializer )
    => /\ call.result = "InvalidPDA"
       /\ Target = call.before

\* C5: every record stored in a slot has its rating in 1..5.
C5_RatingInRange ==
    \A k \in Slots :
        Allocated(accounts[k]) => StoredRating(accounts[k]) \in 1..5

\* C5 witness: an Update has written a new rating over a record.
C5_Witness ==
    /\ call.op = "update"
    /\ call.result = "Ok"
    /\ StoredRating(call.before) # call.rating
    /\ StoredRating(Target) = call.rating

\* C6: every initialized record sits at the address derived from its own
\* owner and title, and no Create or Update changes the owner or the title
\* of an initialized record.
C6_AddressBinding ==
    /\ \A k \in Slots :
           Initialized(accounts[k]) =>
               k = find_program_address(StoredReviewer(accounts[k]),
                                        StoredTitle(accounts[k]))
    /\ ( call.op # "none" /\ Initialized(call.before) )
       => /\ StoredReviewer(Target) = StoredReviewer(call.before)
          /\ StoredTitle(Target) = StoredTitle(call.before)

\* C6 witness: an Update has rewritten an initialized record, which is
\* still at the address of its owner and title.
C6_Witness ==
    /\ call.op = "update"
    /\ Initialized(call.before)
    /\ Target # call.before
    /\ call.pda_key = find_program_address(StoredReviewer(Target),
                                           StoredTitle(Target))

\* Results Update returns at the address check or after it.
AfterAddressCheck ==
    {"UninitializedAccount", "InvalidRating", "InvalidDataLength", "Ok"}

\* C7: Update validates the address against the caller and the stored
\* title: two requests that differ only in their title get the same outcome
\* of the address check, and a successful Update leaves the stored title.
C7_StoredTitleDecides ==
    /\ call.op = "none" =>
         \A initializer \in Signers, is_signer \in BOOLEAN, k \in Slots,
            rating \in Ratings, description \in Descriptions,
            t1 \in Titles, t2 \in Titles :
              (update_movie_review(accounts, initializer, is_signer, k, t1,
                                   rating, description).result = "InvalidPDA")
              <=>
              (update_movie_review(accounts, initializer, is_signer, k, t2,
                                   rating, description).result = "InvalidPDA")
    /\ ( call.op = "update" /\ call.result = "InvalidPDA" )
       => call.pda_key # find_program_address(call.initializer,
                                              StoredTitle(call.before))
    /\ ( call.op = "update" /\ call.result \in AfterAddressCheck )
       => call.pda_key = find_program_address(call.initializer,
                                              StoredTitle(call.before))
    /\ ( call.op = "update" /\ call.result = "Ok" )
       => StoredTitle(Target) = StoredTitle(call.before)

\* C7 witness: an Update whose request carries another title than the
\* stored one has passed the address check and succeeded.
C7_Witness ==
    /\ call.op = "update"
    /\ call.result = "Ok"
    /\ call.title # StoredTitle(call.before)
    /\ StoredTitle(Target) = StoredTitle(call.before)

\* C8: once a slot holds a record with initialized true, it does so in
\* every later state.
C8_InitializedForever ==
    [][ \A k \in Slots :
            Initialized(accounts[k]) => Initialized(accounts'[k]) ]_vars

\* C8 witness: an invocation has rewritten a slot that held an initialized
\* record, and the record is still initialized.
C8_Witness ==
    /\ call.op # "none"
    /\ Initialized(call.before)
    /\ Target # call.before
    /\ Initialized(Target)
    /\ call.result # "Ok"

\* Serialized length the lengths stored in a slot stand for.
StoredSize(acct) == FixedBytes + StoredTitleLen(acct) + StoredDescLen(acct)

\* C9: the serialized length of every record stored in a slot is at most
\* the capacity of the slot.
C9_SizeWithinCapacity ==
    \A k \in Slots :
        Allocated(accounts[k]) => StoredSize(accounts[k]) <= account_len

\* C10: an Update that passes the checks before the size check fails with
\* RecordTooLarge exactly when the stored title with the new description
\* exceeds the capacity.
C10_SizeCheckUsesStoredTitle ==
    ( /\ call.op = "update"
      /\ call.before.owner = "program"
      /\ call.is_signer
      /\ try_from_slice(call.before.data).ok
      /\ call.pda_key = find_program_address(call.initializer,
                                             StoredTitle(call.before))
      /\ Initialized(call.before)
      /\ ~InvalidRating(call.rating) )
    => ( call.result = "InvalidDataLength"
         <=> get_account_size(StoredTitle(call.before), call.description)
                > account_len )

\* C11: an invocation that returns an error leaves every slot as it was.
C11_FailureLeavesSlots ==
    [][ ( call'.op # "none" /\ call'.result # "Ok" )
        => accounts' = accounts ]_vars

\* Bytes a record with this title and description takes in a slot.
RecordBytes(title, description) ==
    FixedBytes + Len(title) + Len(description)

\* C12: a Create whose record exceeds the capacity fails with RecordTooLarge
\* and never asks the host to allocate; a record of exactly the capacity
\* passes the size check.
C12_OversizeCreate ==
    /\ ( call.op = "add"
         /\ RecordBytes(call.title, call.description) > account_len )
       => /\ ~call.requested
          /\ call.result # "Ok"
          /\ Target = call.before
    /\ ( OwnSlotCall("add") /\ ~Allocated(call.before)
         /\ ~InvalidRating(call.rating) )
       => ( call.result = "InvalidDataLength"
            <=> RecordBytes(call.title, call.description) > account_len )

\* C12 witness: a Create of a record one byte over the capacity has been
\* rejected with RecordTooLarge before any allocation.
C12_Witness ==
    /\ OwnSlotCall("add")
    /\ RecordBytes(call.title, call.description) = account_len + 1
    /\ call.result = "InvalidDataLength"
    /\ ~call.requested
    /\ ~Allocated(Target)

\* C13: with signer, address and an empty slot in order, Create fails with
\* InvalidRating for every rating outside 1..5 without allocating, and
\* succeeds for every rating in 1..5 when the record fits and the host
\* allocates.
C13_RatingBounds ==
    /\ ( OwnSlotCall("add") /\ ~Allocated(call.before)
         /\ call.rating \notin 1..5 )
       => /\ call.result = "InvalidRating"
          /\ ~call.requested
          /\ ~Allocated(Target)
    /\ ( OwnSlotCall("add") /\ ~Allocated(call.before)
         /\ call.rating \in 1..5
         /\ RecordBytes(call.title, call.description) <= account_len )
       => /\ call.result \in {"Ok", "AllocationFailed"}
          /\ call.requested
    /\ call.op = "none" =>
         \A initializer \in Signers, title \in Titles,
            rating \in Ratings \cap (1..5), description \in Descriptions :
              LET k == find_program_address(initializer, title) IN
              ( /\ k \in Slots
                /\ ~Allocated(accounts[k])
                /\ RecordBytes(title, description) <= account_len )
              => add_movie_review(accounts, initializer, TRUE, k, title,
                                  rating, description, TRUE).result = "Ok"

\* C13 witness: a Create with rating 0 or 6 has been rejected on an empty
\* slot while the other slot holds a record created with rating 1 or 5.
C13_Witness ==
    /\ OwnSlotCall("add")
    /\ call.rating \in {0, 6}
    /\ call.result = "InvalidRating"
    /\ ~Allocated(Target)
    /\ \E k \in Slots :
          /\ creates[k] = 1
          /\ StoredRating(accounts[k]) \in {1, 5}

\* The preconditions of Update the invocation in progress violates, read
\* from its arguments and the slot as it was.
NotOwnedByProgram == call.before.owner # "program"
NotSigned == ~call.is_signer
NotDecodable == ~try_from_slice(call.before.data).ok
NotUpdateAddress ==
    call.pda_key # find_program_address(call.initializer,
                                        StoredTitle(call.before))
NotInitialized == ~Initialized(call.before)
NotRating == call.rating \notin 1..5

\* C14: Update checks IllegalOwner, Unauthorized, decode error,
\* AddressMismatch, UninitializedAccount, InvalidRating, RecordTooLarge in
\* this order and returns the error of the first check violated; a slot of
\* another program gives IllegalOwner whatever the signer and the content.
C14_UpdateCheckOrder ==
    call.op = "update" =>
      /\ NotOwnedByProgram => call.result = "IllegalOwner"
      /\ ( ~NotOwnedByProgram /\ NotSigned )
         => call.result = "MissingRequiredSignature"
      /\ ( ~NotOwnedByProgram /\ ~NotSigned /\ NotDecodable )
         => ( call.result = "BorshIoError" /\ Target = call.before )
      /\ ( ~NotOwnedByProgram /\ ~NotSigned /\ ~NotDecodable
           /\ NotUpdateAddress )
         => call.result = "InvalidPDA"
      /\ ( ~NotOwnedByProgram /\ ~NotSigned /\ ~NotDecodable
           /\ ~NotUpdateAddress /\ NotInitialized )
         => call.result = "UninitializedAccount"
      /\ ( ~NotOwnedByProgram /\ ~NotSigned /\ ~NotDecodable
           /\ ~NotUpdateAddress /\ ~NotInitialized /\ NotRating )
         => call.result = "InvalidRating"
      /\ call.result = "InvalidDataLength"
         => ( ~NotOwnedByProgram /\ ~NotSigned /\ ~NotDecodable
              /\ ~NotUpdateAddress /\ ~NotInitialized /\ ~NotRating )

\* C14 witness: an unsigned Update on a slot of another program whose
\* content does not decode has returned IllegalOwner.
C14_Witness ==
    /\ call.op = "update"
    /\ call.before.owner = "other"
    /\ NotSigned
    /\ NotDecodable
    /\ call.result = "IllegalOwner"

\* The preconditions of Create the invocation in progress violates.
NotCreateAddress ==
    call.pda_key # find_program_address(call.initializer, call.title)
SlotCorrupt ==
    Len(call.before.data) # 0 /\ ~try_from_slice(call.before.data).ok
SlotInitialized ==
    /\ Len(call.before.data) # 0
    /\ try_from_slice(call.before.data).ok
    /\ StoredFlag(call.before) = 1
TooLarge == RecordBytes(call.title, call.description) > account_len

\* C15: Create checks Unauthorized, AddressMismatch, the slot (CorruptState,
\* AlreadyInitialized), InvalidRating, RecordTooLarge in this order and
\* returns the error of the first check violated; the allocation is
\* requested only when all five passed.
C15_CreateCheckOrder ==
    call.op = "add" =>
      /\ NotSigned => call.result = "MissingRequiredSignature"
      /\ ( ~NotSigned /\ NotCreateAddress ) => call.result = "InvalidPDA"
      /\ ( ~NotSigned /\ ~NotCreateAddress /\ SlotCorrupt )
         => call.result = "InvalidAccountData"
      /\ ( ~NotSigned /\ ~NotCreateAddress /\ SlotInitialized )
         => call.result = "AccountAlreadyInitialized"
      /\ ( ~NotSigned /\ ~NotCreateAddress /\ ~SlotCorrupt /\ ~SlotInitialized
           /\ NotRating )
         => call.result = "InvalidRating"
      /\ ( ~NotSigned /\ ~NotCreateAddress /\ ~SlotCorrupt /\ ~SlotInitialized
           /\ ~NotRating /\ TooLarge )
         => call.result = "InvalidDataLength"
      /\ call.requested
         <=> ( ~NotSigned /\ ~NotCreateAddress /\ ~SlotCorrupt
               /\ ~SlotInitialized /\ ~NotRating /\ ~TooLarge )

\* C15 witness: a Create that violates every check at once (no signature,
\* another slot's address, an initialized slot, rating out of range, record
\* too large) has returned the error of the first and requested nothing.
C15_Witness ==
    /\ call.op = "add"
    /\ NotSigned
    /\ NotCreateAddress
    /\ SlotInitialized
    /\ NotRating
    /\ TooLarge
    /\ call.result = "MissingRequiredSignature"
    /\ ~call.requested

\* C16: a request the entry point decodes as UpdateMovieReview is handled by
\* update_movie_review, and one decoded as AddMovieReview by
\* add_movie_review.
C16_BothDispatched ==
    call.op # "none" =>
      /\ call.instruction = "AddMovieReview" => call.op = "add"
      /\ call.instruction = "UpdateMovieReview" => call.op = "update"

\* C17: for the title and description of every request,
\* get_account_size is 1 + 32 + 1 + (4 + |title|) + (4 + |description|) and
\* is the number of bytes serialize produces for a record with them.
C17_SizeIsSerializedLength ==
    call.op # "none" =>
      /\ get_account_size(call.title, call.description)
           = 1 + 32 + 1 + (4 + Len(call.title)) + (4 + Len(call.description))
      /\ \A flag \in BOOLEAN :
           get_account_size(call.title, call.description)
             = Len(Serialize([is_initialized |-> flag,
                              reviewer |-> call.initializer,
                              rating |-> call.rating,
                              title |-> call.title,
                              description |-> call.description]))

\* C17 witness: a Create of a record whose computed size is the whole slot
\* has filled the slot with exactly the serialized record.
C17_Witness ==
    /\ call.op = "add"
    /\ call.result = "Ok"
    /\ get_account_size(call.title, call.description) = account_len
    /\ Target.data = Serialize(new_account_data(call.initializer, call.rating,
                                                call.title, call.description))

\* C18: the whole content of every allocated slot, as add_movie_review and
\* update_movie_review read it, decodes without error.
C18_AllocatedSlotsDecode ==
    \A k \in Slots :
      Allocated(accounts[k]) => try_from_slice(accounts[k].data).ok

\* The slot of the invocation in progress held, before it, a record that
\* decodes with is_initialized false.
SlotUninitialized ==
    /\ Len(call.before.data) # 0
    /\ try_from_slice(call.before.data).ok
    /\ StoredFlag(call.before) = 0

\* The record a Create in progress writes.
NewRecordBytes ==
    Serialize(new_account_data(call.initializer, call.rating, call.title,
                               call.description))

C20_UpdateAfterCreate ==
    call.op = "update" =>
      /\ call.result = "Ok"
         => ( creates[call.pda_key] >= 1 /\ Initialized(call.before) )
      /\ ~Allocated(call.before) => call.result # "Ok"
      /\ ( ~NotOwnedByProgram /\ ~NotSigned /\ ~NotUpdateAddress
           /\ SlotUninitialized )
         => ( call.result = "UninitializedAccount" /\ Target = call.before )

\* C20 witness: an Update on a slot no Create succeeded on, holding a record
\* never marked initialized, has failed with UninitializedAccount.
C20_Witness ==
    /\ call.op = "update"
    /\ SlotUninitialized
    /\ creates[call.pda_key] = 0
    /\ call.result = "UninitializedAccount"

====
